---------------------------- MODULE Spec2Model ----------------------------
(***************************************************************************)
(* A model of combat.py: engine-vs-engine match orchestration.             *)
(*                                                                         *)
(*   Timer                 the per-engine clock (update_time)              *)
(*   Match                 one contest (win_score_adjudication,            *)
(*                         update_headers, start_match)                    *)
(*   update_score          the standings table                             *)
(*   main                  the gauntlet scheduler, the process pool and    *)
(*                         the completion loop                             *)
(*                                                                         *)
(* Python's bool-as-index convention is kept: side 1 (chess.WHITE = True)  *)
(* is White, side 0 (chess.BLACK = False) is Black.                        *)
(***************************************************************************)
EXTENDS Integers, Sequences, FiniteSets, TLC

(***************************************************************************)
(* Bounds of the exploration.                                              *)
(***************************************************************************)
\* Base times (ms) and increments (ms) a clock is configured with: a search
\* takes at least 1 ms, so a clock of 1 ms falls on its first move and a
\* clock of 2 ms may survive one.
BaseTimes == {1, 2}
Increments == {0, 1}
\* Largest search time (whole ms) an engine reports or the wall clock measures.
MaxElapse == 2
\* Longest score history drawn for the adjudicator, largest window size.
MaxLen == 3
MaxN == 2
\* A position is declared over by the rules interface after at most this many plies.
MaxPlies == 3

WHITE == 1
BLACK == 0
Sides == {BLACK, WHITE}
Other(s) == 1 - s

\* Scores an engine reports (centipawns) and thresholds a user configures;
\* both straddle every comparison the adjudicator makes.
ScoreVals == {-1, 0, 1}
Thresholds == {-1, 0, 1}
NoValue == "None"
\* An optional value of a search answer: <<>> is None, <<v>> is the value v.
Missing == <<>>
Some(v) == <<v>>
Optional(S) == {Missing} \cup {Some(v) : v \in S}

(***************************************************************************)
(* Timer                                                                   *)
(***************************************************************************)
\* A search time in ms is a float or an int: its whole milliseconds, and
\* whether a fraction of a millisecond follows them.
Elapses == [ms : 0..MaxElapse, frac : BOOLEAN]
WholeMs(k) == [ms |-> k, frac |-> FALSE]

\* Python's int() on a non-negative time: the fraction is dropped.
PyInt(elapse) == elapse.ms

\* Timer.__init__
Timer(btms, itms) ==
    [btms |-> btms, itms |-> itms, rem_time |-> btms, tf |-> FALSE]

\* A variant that sets the flag afresh on every call.
update_time_recomputed(t, elapse) ==
    [t EXCEPT !.tf = t.rem_time - PyInt(elapse) < 1,
              !.rem_time = t.rem_time + (t.itms - PyInt(elapse))]

\* A variant whose test is off by one millisecond.
update_time_off_by_one(t, elapse) ==
    [t EXCEPT !.tf = IF t.rem_time - PyInt(elapse) <= 1 THEN TRUE ELSE t.tf,
              !.rem_time = t.rem_time + (t.itms - PyInt(elapse))]

\* Timer.update_time
update_time(t, elapse) ==
    [t EXCEPT !.tf = IF t.rem_time - PyInt(elapse) < 1 THEN TRUE ELSE t.tf,
              !.rem_time = t.rem_time + (t.itms - PyInt(elapse))]

(***************************************************************************)
(* Match.win_score_adjudication                                            *)
(***************************************************************************)
\* Python's s[-n:] for n >= 0: the last n entries, the whole list when n is 0
\* or exceeds the length.
PyLastSlice(s, n) ==
    LET start == IF n > 0 /\ Len(s) - n > 0 THEN Len(s) - n ELSE 0
    IN  SubSeq(s, start + 1, Len(s))

CountGE(s, w) == Cardinality({i \in DOMAIN s : s[i] >= w})
CountLE(s, w) == Cardinality({i \in DOMAIN s : s[i] <= w})

\* The pair returned is indexed like the code's list: [0] Black wins, [1] White wins.
NoAdjudication == [i \in Sides |-> FALSE]
WhiteAdjudged == [i \in Sides |-> i = WHITE]
BlackAdjudged == [i \in Sides |-> i = BLACK]

\* A variant that drops the length guard and asks that every score of the
\* slice qualifies, whatever the slice's length.
win_score_adjudication_all_of_slice(wscores, bscores, n, w) ==
    LET ws == PyLastSlice(wscores, n)
        bs == PyLastSlice(bscores, n)
    IN  IF CountGE(ws, w) >= Len(ws) /\ CountLE(bs, -w) >= Len(bs)
        THEN WhiteAdjudged
        ELSE IF CountGE(bs, w) >= Len(bs) /\ CountLE(ws, -w) >= Len(ws)
             THEN BlackAdjudged
             ELSE NoAdjudication

\* A variant that counts over the whole history instead of the last n scores.
win_score_adjudication_whole_history(wscores, bscores, n, w) ==
    IF Len(wscores) < n \/ Len(bscores) < n
    THEN NoAdjudication
    ELSE IF CountGE(wscores, w) >= n /\ CountLE(bscores, -w) >= n
         THEN WhiteAdjudged
         ELSE IF CountGE(bscores, w) >= n /\ CountLE(wscores, -w) >= n
              THEN BlackAdjudged
              ELSE NoAdjudication

\* A variant that tests Black's condition first.
win_score_adjudication_black_first(wscores, bscores, n, w) ==
    IF Len(wscores) < n \/ Len(bscores) < n
    THEN NoAdjudication
    ELSE IF CountGE(PyLastSlice(bscores, n), w) >= n
            /\ CountLE(PyLastSlice(wscores, n), -w) >= n
         THEN BlackAdjudged
         ELSE IF CountGE(PyLastSlice(wscores, n), w) >= n
                 /\ CountLE(PyLastSlice(bscores, n), -w) >= n
              THEN WhiteAdjudged
              ELSE NoAdjudication

\* n is self.win_score_count, w is self.win_score_cp.
win_score_adjudication(wscores, bscores, n, w) ==
    IF Len(wscores) < n \/ Len(bscores) < n
    THEN NoAdjudication
    ELSE IF CountGE(PyLastSlice(wscores, n), w) >= n
            /\ CountLE(PyLastSlice(bscores, n), -w) >= n
         THEN WhiteAdjudged
         ELSE IF CountGE(PyLastSlice(bscores, n), w) >= n
                 /\ CountLE(PyLastSlice(wscores, n), -w) >= n
              THEN BlackAdjudged
              ELSE NoAdjudication


(***************************************************************************)
(* The rules interface (python-chess Board), as far as the code reads it.  *)
(***************************************************************************)
Moves == {"e2e4"}
Classes == {"checkmate", "stalemate", "insufficient", "fifty", "threefold"}

\* What the board's queries can answer together: checkmate and stalemate
\* exclude each other, and each of checkmate, stalemate and insufficient
\* material makes is_game_over() true.  can_claim_fifty_moves() and
\* is_repetition(3) may hold while the game is not over.
BoardStatuses ==
    {st \in [over : BOOLEAN, flags : SUBSET Classes] :
        /\ ~({"checkmate", "stalemate"} \subseteq st.flags)
        /\ (st.flags \cap {"checkmate", "stalemate", "insufficient"} # {}
                => st.over)}

\* Board.result(): the side to move is the one that is mated.
BoardResult(b) ==
    IF "checkmate" \in b.flags
    THEN (IF b.turn = WHITE THEN "0-1" ELSE "1-0")
    ELSE IF b.over THEN "1/2-1/2" ELSE "*"

(***************************************************************************)
(* Match.update_headers                                                    *)
(***************************************************************************)
\* Match.__init__ sets it and nothing changes it.
write_time_forfeit_result == TRUE

NaturalTermination(b) ==
    IF "checkmate" \in b.flags THEN "checkmate"
    ELSE IF "stalemate" \in b.flags THEN "stalemate"
    ELSE IF "insufficient" \in b.flags THEN "insufficient mating material"
    ELSE IF "fifty" \in b.flags THEN "fifty-move draw rule"
    ELSE IF "threefold" \in b.flags THEN "threefold repetition"
    ELSE "unknown"

AdjudicationReason(sa) ==
    IF sa[1] THEN "adjudication: good score for white"
    ELSE "adjudication: good score for black"

\* A variant that tests the adjudication signal before the time forfeit.
update_headers_adjudication_first(tfs, sa, b, wplayer, bplayer, rnd) ==
    LET res_term ==
          IF sa[0] \/ sa[1]
          THEN <<IF sa[1] THEN "1-0" ELSE "0-1", AdjudicationReason(sa)>>
          ELSE IF tfs[1] \/ tfs[0]
               THEN <<IF tfs[1] THEN "0-1" ELSE "1-0", "time forfeit">>
               ELSE <<BoardResult(b), NaturalTermination(b)>>
    IN  [Result |-> res_term[1], Termination |-> res_term[2],
         Round |-> rnd, White |-> wplayer, Black |-> bplayer]

\* tfs is self.time_forfeit, sa is score_adjudication, rnd is self.round_num.
update_headers(tfs, sa, b, wplayer, bplayer, rnd) ==
    LET res_term ==
          IF tfs[1] \/ tfs[0]
          THEN (IF write_time_forfeit_result
                THEN <<IF tfs[1] THEN "0-1" ELSE "1-0", "time forfeit">>
                ELSE <<"*", "unterminated">>)
          ELSE IF sa[0] \/ sa[1]
               THEN <<IF sa[1] THEN "1-0" ELSE "0-1", AdjudicationReason(sa)>>
               ELSE <<BoardResult(b), NaturalTermination(b)>>
    IN  [Result |-> res_term[1], Termination |-> res_term[2],
         Round |-> rnd, White |-> wplayer, Black |-> bplayer]

(***************************************************************************)
(* update_score                                                            *)
(***************************************************************************)
Bump(e, field) == [e EXCEPT ![field] = @ + 1]

\* The loss branch of one loop iteration: the loss and, on a time forfeit,
\* the tf counter.
ScoreLoss(e, termi) ==
    IF termi = "time forfeit" THEN Bump(Bump(e, "loss"), "tf") ELSE Bump(e, "loss")

\* A variant that books the loss of a 0-1 game on Black.
update_score_loss_to_black(g, pd) ==
    [i \in DOMAIN pd |->
        LET isW == g.White = pd[i].name
            isB == g.Black = pd[i].name
        IN  IF g.Result = "1-0"
            THEN (IF isW THEN Bump(pd[i], "win")
                  ELSE IF isB THEN ScoreLoss(pd[i], g.Termination) ELSE pd[i])
            ELSE IF g.Result = "0-1"
            THEN (IF isB THEN ScoreLoss(Bump(pd[i], "win"), g.Termination) ELSE pd[i])
            ELSE IF g.Result = "1/2-1/2"
            THEN (IF isW \/ isB THEN Bump(pd[i], "draw") ELSE pd[i])
            ELSE pd[i]]

\* A variant in which a win clears the winner's count of time forfeits.
update_score_win_clears_tf(g, pd) ==
    [i \in DOMAIN pd |->
        LET isW == g.White = pd[i].name
            isB == g.Black = pd[i].name
        IN  IF g.Result = "1-0"
            THEN (IF isW THEN [Bump(pd[i], "win") EXCEPT !.tf = 0]
                  ELSE IF isB THEN ScoreLoss(pd[i], g.Termination) ELSE pd[i])
            ELSE IF g.Result = "0-1"
            THEN (IF isB THEN [Bump(pd[i], "win") EXCEPT !.tf = 0]
                  ELSE IF isW THEN ScoreLoss(pd[i], g.Termination) ELSE pd[i])
            ELSE IF g.Result = "1/2-1/2"
            THEN (IF isW \/ isB THEN Bump(pd[i], "draw") ELSE pd[i])
            ELSE pd[i]]

\* update_score: every entry whose name equals a header's name is counted.
update_score(g, pd) ==
    [i \in DOMAIN pd |->
        LET isW == g.White = pd[i].name
            isB == g.Black = pd[i].name
            e1 == IF g.Result = "1-0"
                  THEN (IF isW THEN Bump(pd[i], "win") ELSE pd[i])
                  ELSE IF g.Result = "0-1"
                  THEN (IF isB THEN Bump(pd[i], "win") ELSE pd[i])
                  ELSE IF g.Result = "1/2-1/2"
                  THEN (IF isW THEN Bump(pd[i], "draw") ELSE pd[i])
                  ELSE pd[i]
        IN  IF g.Result = "1-0"
            THEN (IF isB THEN ScoreLoss(e1, g.Termination) ELSE e1)
            ELSE IF g.Result = "0-1"
            THEN (IF isW THEN ScoreLoss(e1, g.Termination) ELSE e1)
            ELSE IF g.Result = "1/2-1/2"
            THEN (IF isB THEN Bump(e1, "draw") ELSE e1)
            ELSE e1]

\* main: the entry of player_data built for each engine at startup.
NewEntry(name) == [name |-> name, win |-> 0, loss |-> 0, draw |-> 0, tf |-> 0]

(***************************************************************************)
(* State                                                                   *)
(***************************************************************************)
VARIABLES
    \* --- one Match (a contest running in a worker process) ---
    pc,                 \* where start_match stands
    self,               \* the Match's constructor fields: eng_names, round_num,
                        \* total_games, game_id, adjudication, win_score_cp,
                        \* win_score_count, and the roster indices behind the names
    clock,              \* self.clock: side -> Timer
    time_forfeit,       \* self.time_forfeit: side -> bool
    eng_score,          \* eng_score: side -> list of scores
    score_adjudication, \* score_adjudication: [black wins, white wins]
    board,              \* the position: turn, over, flags, stack of pushed moves
    node,               \* the moves of the annotated game, in order
    eng,                \* the two engine processes: side -> "none", "running", "quit"
    game,               \* the headers update_headers wrote
    upd,                \* the last update_time call: side, the clock before it, elapse
    \* --- main ---
    mpc,                \* where main stands
    args,               \* reverse_start_side, gauntlet_color, parallel, len(games)
    player_data,        \* roster index -> name and counters
    total_games,
    game_id,
    round_num,
    sub_round,          \* in tenths
    loop,               \* the loop variables of the submission loops
    analysis,           \* the submitted jobs, in submission order
    num_res,
    outpgn              \* the games appended to the output file, in order

matchVars == <<pc, self, clock, time_forfeit, eng_score, score_adjudication,
               board, node, eng, game, upd>>
mainVars == <<mpc, args, player_data, total_games, game_id, round_num,
              sub_round, loop, analysis, num_res, outpgn>>
vars == <<matchVars, mainVars>>

\* Before update_headers and before the first update_time.
NoGame == [Result |-> NoValue, Termination |-> NoValue, Round |-> 0,
           White |-> NoValue, Black |-> NoValue]
NoCall == [side |-> WHITE, rem_time |-> 0, tf |-> FALSE, elapse |-> WholeMs(0),
           score_cp |-> Missing, called |-> FALSE]
NoSelf == [eng_names |-> [s \in Sides |-> NoValue], idx |-> [s \in Sides |-> 0],
           round_num |-> 0, total_games |-> 0, game_id |-> 0,
           adjudication |-> FALSE, win_score_cp |-> 700, win_score_count |-> 4]
StartBoard == [turn |-> WHITE, over |-> FALSE, flags |-> {}, stack |-> <<>>]

\* No contest is modelled in detail.
IdleMatch ==
    /\ pc = "idle"
    /\ self = NoSelf
    /\ clock = [s \in Sides |-> Timer(0, 0)]
    /\ time_forfeit = [s \in Sides |-> FALSE]
    /\ eng_score = [s \in Sides |-> <<>>]
    /\ score_adjudication = NoAdjudication
    /\ board = StartBoard
    /\ node = <<>>
    /\ eng = [s \in Sides |-> "none"]
    /\ game = NoGame
    /\ upd = NoCall

NoLoop == [gidx |-> 0, i |-> 0, m |-> 0, n |-> 0, games_per_pair_per_round |-> 0]

\* main is not modelled.
IdleMain ==
    /\ mpc = "idle"
    /\ args = [reverse_start_side |-> FALSE, gauntlet_color |-> NoValue,
               parallel |-> 1, positions |-> 0]
    /\ player_data = <<>>
    /\ total_games = 0
    /\ game_id = 0
    /\ round_num = 0
    /\ sub_round = 0
    /\ loop = NoLoop
    /\ analysis = <<>>
    /\ num_res = 0
    /\ outpgn = <<>>

(***************************************************************************)
(* Timer under every sequence of update_time calls                         *)
(***************************************************************************)
\* The window of remaining times explored.
RemWindow == -2..3

InitTimer ==
    /\ IdleMain
    /\ pc = "timer"
    /\ self = NoSelf
    /\ \E b \in BaseTimes \cup {0}, i \in Increments :
          clock = [s \in Sides |-> Timer(b, i)]
    /\ time_forfeit = [s \in Sides |-> FALSE]
    /\ eng_score = [s \in Sides |-> <<>>]
    /\ score_adjudication = NoAdjudication
    /\ board = StartBoard
    /\ node = <<>>
    /\ eng = [s \in Sides |-> "none"]
    /\ game = NoGame
    /\ upd = NoCall

\* One call clock[side].update_time(elapse, log_fn).  upd keeps what the call
\* was given and found, and the score_cp the search of that iteration
\* reported (none outside a contest).
CallUpdateTime(side, elapse, score_cp) ==
    /\ clock' = [clock EXCEPT ![side] = update_time(@, elapse)]
    /\ upd' = [side |-> side, rem_time |-> clock[side].rem_time,
               tf |-> clock[side].tf, elapse |-> elapse,
               score_cp |-> score_cp, called |-> TRUE]

TimerUpdate ==
    /\ pc = "timer"
    /\ \E elapse \in Elapses :
          /\ CallUpdateTime(WHITE, elapse, Missing)
          /\ clock'[WHITE].rem_time \in RemWindow
    /\ UNCHANGED <<pc, self, time_forfeit, eng_score, score_adjudication,
                   board, node, eng, game, mainVars>>

SpecTimer == InitTimer /\ [][TimerUpdate]_vars

(***************************************************************************)
(* win_score_adjudication on every pair of histories                       *)
(***************************************************************************)
SeqsUpTo(S, k) == UNION {[1..j -> S] : j \in 0..k}

InitAdjudicator ==
    /\ IdleMain
    /\ pc = "adjudicate"
    /\ \E n \in 0..MaxN, w \in Thresholds :
          self = [NoSelf EXCEPT !.adjudication = TRUE,
                                !.win_score_cp = w, !.win_score_count = n]
    /\ clock = [s \in Sides |-> Timer(0, 0)]
    /\ time_forfeit = [s \in Sides |-> FALSE]
    /\ eng_score \in [Sides -> SeqsUpTo(ScoreVals, MaxLen)]
    /\ score_adjudication = NoAdjudication
    /\ board = StartBoard
    /\ node = <<>>
    /\ eng = [s \in Sides |-> "none"]
    /\ game = NoGame
    /\ upd = NoCall

\* self.win_score_adjudication(eng_score[chess.WHITE], eng_score[chess.BLACK])
Adjudged(scores) ==
    win_score_adjudication(scores[WHITE], scores[BLACK],
                           self.win_score_count, self.win_score_cp)

Adjudicate ==
    /\ pc = "adjudicate"
    /\ score_adjudication' = Adjudged(eng_score)
    /\ pc' = "adjudicated"
    /\ UNCHANGED <<self, clock, time_forfeit, eng_score, board, node, eng,
                   game, upd, mainVars>>

SpecAdjudicator == InitAdjudicator /\ [][Adjudicate]_vars

(***************************************************************************)
(* update_headers on every combination of its inputs                       *)
(***************************************************************************)
InitHeaders ==
    /\ IdleMain
    /\ pc = "headers"
    /\ self = [NoSelf EXCEPT !.eng_names = [s \in Sides |-> IF s = WHITE THEN "W" ELSE "B"],
                             !.round_num = 10, !.total_games = 1, !.game_id = 1]
    /\ clock = [s \in Sides |-> Timer(0, 0)]
    /\ time_forfeit \in [Sides -> BOOLEAN]
    /\ eng_score = [s \in Sides |-> <<>>]
    /\ score_adjudication \in [Sides -> BOOLEAN]
    /\ \E st \in BoardStatuses, t \in Sides :
          board = [turn |-> t, over |-> st.over, flags |-> st.flags, stack |-> <<>>]
    /\ node = <<>>
    /\ eng = [s \in Sides |-> "none"]
    /\ game = NoGame
    /\ upd = NoCall

\* self.update_headers(game, board, self.eng_names[1], self.eng_names[0],
\*                     score_adjudication, elapse)
HeadersWritten ==
    update_headers(time_forfeit, score_adjudication, board,
                   self.eng_names[1], self.eng_names[0], self.round_num)

WriteHeaders ==
    /\ pc = "headers"
    /\ game' = HeadersWritten
    /\ pc' = "headers_done"
    /\ UNCHANGED <<self, clock, time_forfeit, eng_score, score_adjudication,
                   board, node, eng, upd, mainVars>>

SpecHeaders == InitHeaders /\ [][WriteHeaders]_vars

(***************************************************************************)
(* main: the body of the completion loop, for one completed future         *)
(***************************************************************************)
\* A variant that counts a contest that raised as a loss of every entry.
HandleRaised_counted ==
    /\ player_data' = [i \in DOMAIN player_data |-> Bump(player_data[i], "loss")]
    /\ UNCHANGED <<num_res, outpgn>>

\* future.result() raises what the contest raised: the handler's except
\* clause logs it and nothing else is done.
HandleRaised ==
    UNCHANGED <<player_data, num_res, outpgn>>

\* A variant that applies the outcome before the archive is written.
HandleResult_score_first(g, written) ==
    /\ num_res' = num_res + 1
    /\ player_data' = update_score(g, player_data)
    /\ outpgn' = IF written THEN Append(outpgn, g) ELSE outpgn

\* A variant that archives and counts a returned game twice.
HandleResult_twice(g, written) ==
    /\ num_res' = num_res + 1
    /\ outpgn' = IF written THEN Append(Append(outpgn, g), g) ELSE outpgn
    /\ player_data' = IF written THEN update_score(g, update_score(g, player_data))
                                 ELSE player_data

\* future.result() returns [game, game_id, round_num, elapse].  num_res is
\* counted first; opening or writing the output file may raise (written is
\* FALSE, as when a header of the result is missing), and then the except
\* clause is reached before update_score.
HandleResult(g, written) ==
    /\ num_res' = num_res + 1
    /\ outpgn' = IF written THEN Append(outpgn, g) ELSE outpgn
    /\ player_data' = IF written THEN update_score(g, player_data) ELSE player_data

(***************************************************************************)
(* Match.start_match: one contest, ply by ply                              *)
(***************************************************************************)
\* Largest window size configured for a contest played ply by ply.
MaxWin == 1

\* What the rules interface answers after a move in a contest: the position
\* goes on (a draw may be claimable), or is over by checkmate, by stalemate,
\* by the 75-move rule, or for a reason none of the code's queries names.
PlayStatuses ==
    {st \in BoardStatuses :
        \/ ~st.over /\ st.flags \in {{}, {"fifty"}}
        \/ st.over /\ st.flags \in {{"checkmate"}, {"stalemate"}, {"fifty"}, {}}}

\* A variant without the floor of 1 ms.
PyMax1_no_floor(elapse) == elapse

\* time_ms = max(1, time_ms)
PyMax1(elapse) == IF elapse.ms < 1 THEN WholeMs(1) ELSE elapse

\* A variant that saves a missing score as a lost position.
ScoreSaved_missing_as_loss(score_cp) == IF score_cp = Missing THEN -1 ELSE score_cp[1]

\* 0 if score_cp is None else score_cp
ScoreSaved(score_cp) == IF score_cp = Missing THEN 0 ELSE score_cp[1]

\* chess.engine.SimpleEngine.popen_uci twice, the options, the board, the
\* game; both clocks are set back to their base time (tf is left alone).
MatchOpen ==
    /\ pc = "start"
    /\ eng' = [s \in Sides |-> "running"]
    /\ clock' = [s \in Sides |-> [clock[s] EXCEPT !.rem_time = clock[s].btms]]
    /\ pc' = IF board.over THEN "finalize" ELSE "loop"
    /\ UNCHANGED <<self, time_forfeit, eng_score, score_adjudication, board,
                   node, game, upd, mainVars>>

\* popen_uci or configure raises: start_match is left by the exception.  The
\* process of engine 0 is up when engine 1 is the one that fails.
MatchOpenFails ==
    /\ pc = "start"
    /\ \E failing \in Sides :
          eng' = [s \in Sides |-> IF s < failing THEN "running" ELSE "none"]
    /\ pc' = "failed"
    /\ UNCHANGED <<self, clock, time_forfeit, eng_score, score_adjudication,
                   board, node, game, upd, mainVars>>

\* A variant that asks the adjudicator whether adjudication is on or not.
PlyStep_always_adjudicates(move, score_cp, elapse, st) ==
    LET turn == board.turn
        scores == [eng_score EXCEPT ![turn] = Append(@, ScoreSaved(score_cp))]
        pushed == [turn |-> Other(turn), over |-> st.over, flags |-> st.flags,
                   stack |-> Append(board.stack, move)]
        adj == win_score_adjudication(scores[WHITE], scores[BLACK], 1, 1)
    IN  /\ eng_score' = scores
        /\ CallUpdateTime(turn, elapse, score_cp)
        /\ time_forfeit' = [time_forfeit EXCEPT ![turn] = clock'[turn].tf]
        /\ node' = Append(node, move)
        /\ IF clock'[turn].tf
           THEN /\ pc' = "finalize"
                /\ UNCHANGED <<board, score_adjudication>>
           ELSE /\ board' = pushed
                /\ score_adjudication' = adj
                /\ pc' = IF adj[0] \/ adj[1] \/ pushed.over
                         THEN "finalize" ELSE "loop"

\* A variant that pushes the move and asks the adjudicator before it looks
\* at the flag.
PlyStep_push_before_break(move, score_cp, elapse, st) ==
    LET turn == board.turn
        scores == [eng_score EXCEPT ![turn] = Append(@, ScoreSaved(score_cp))]
        pushed == [turn |-> Other(turn), over |-> st.over, flags |-> st.flags,
                   stack |-> Append(board.stack, move)]
        adj == IF self.adjudication
               THEN win_score_adjudication(scores[WHITE], scores[BLACK],
                                           self.win_score_count, self.win_score_cp)
               ELSE score_adjudication
    IN  /\ eng_score' = scores
        /\ CallUpdateTime(turn, elapse, score_cp)
        /\ time_forfeit' = [time_forfeit EXCEPT ![turn] = clock'[turn].tf]
        /\ node' = Append(node, move)
        /\ board' = pushed
        /\ score_adjudication' = adj
        /\ pc' = IF clock'[turn].tf \/ adj[0] \/ adj[1] \/ pushed.over
                 THEN "finalize" ELSE "loop"

\* The body of the while loop once the search has answered: move, score_cp
\* and elapse (time_ms after max(1, .)) are what the search gave, st is what
\* the rules interface says of the position after the move.
PlyStep(move, score_cp, elapse, st) ==
    LET turn == board.turn
        scores == [eng_score EXCEPT ![turn] = Append(@, ScoreSaved(score_cp))]
        pushed == [turn |-> Other(turn), over |-> st.over, flags |-> st.flags,
                   stack |-> Append(board.stack, move)]
        adj == IF self.adjudication THEN Adjudged(scores) ELSE score_adjudication
    IN  /\ eng_score' = scores
        /\ CallUpdateTime(turn, elapse, score_cp)
        /\ time_forfeit' = [time_forfeit EXCEPT ![turn] = clock'[turn].tf]
        /\ node' = Append(node, move)
        /\ IF clock'[turn].tf
           THEN /\ pc' = "finalize"
                /\ UNCHANGED <<board, score_adjudication>>
           ELSE /\ board' = pushed
                /\ score_adjudication' = adj
                /\ pc' = IF adj[0] \/ adj[1] \/ pushed.over
                         THEN "finalize" ELSE "loop"

\* One iteration of the while loop.  The search answers a move, a score or
\* none, a time or none (then the time measured, in whole ms, is used); the
\* depth only shapes the move comment and is left out.
MatchPly ==
    /\ pc = "loop"
    /\ \E move \in Moves, score_cp \in Optional(ScoreVals),
          time_ms \in Optional(Elapses), measured \in 0..MaxElapse,
          st \in PlayStatuses :
          /\ time_ms # Missing => measured = 0
          /\ Len(board.stack) + 1 >= MaxPlies => st.over
          /\ PlyStep(move, score_cp,
                     PyMax1(IF time_ms = Missing THEN WholeMs(measured) ELSE time_ms[1]),
                     st)
    /\ UNCHANGED <<self, eng, game, mainVars>>

\* eng[board.turn].play raises (the engine died or stopped answering):
\* start_match is left by the exception, before any quit.
MatchSearchFails ==
    /\ pc = "loop"
    /\ pc' = "failed"
    /\ UNCHANGED <<self, clock, time_forfeit, eng_score, score_adjudication,
                   board, node, eng, game, upd, mainVars>>

\* A variant in which the break on a fallen flag skips the two quit calls.
MatchFinalize_forfeit_skips_quit ==
    /\ pc = "finalize"
    /\ eng' = IF time_forfeit[WHITE] \/ time_forfeit[BLACK]
              THEN eng ELSE [s \in Sides |-> "quit"]
    /\ game' = HeadersWritten
    /\ pc' = "done"
    /\ UNCHANGED <<self, clock, time_forfeit, eng_score, score_adjudication,
                   board, node, upd, mainVars>>

\* After the loop: both engines quit, the headers are written, the list
\* [game, game_id, round_num, elapse] is returned.
MatchFinalize ==
    /\ pc = "finalize"
    /\ eng' = [s \in Sides |-> "quit"]
    /\ game' = HeadersWritten
    /\ pc' = "done"
    /\ UNCHANGED <<self, clock, time_forfeit, eng_score, score_adjudication,
                   board, node, upd, mainVars>>

\* main takes the completed future up.
MatchCollected ==
    /\ pc \in {"done", "failed"}
    /\ mpc = "collect"
    /\ IF pc = "failed"
       THEN HandleRaised
       ELSE \E written \in BOOLEAN : HandleResult(game, written)
    /\ mpc' = "end"
    /\ UNCHANGED <<matchVars, args, total_games, game_id, round_num, sub_round,
                   loop, analysis>>

NextMatch ==
    \/ MatchOpen
    \/ MatchOpenFails
    \/ MatchPly
    \/ MatchSearchFails
    \/ MatchFinalize
    \/ MatchCollected

\* The configurations explored: every colour option and both rosters (two
\* names, or one name twice) where the contest has no adjudication and no
\* increment and starts on a live position; every contest configuration
\* where the roster is A, B and no colour is forced.
MatchConfigs ==
    {c \in [gc : {NoValue, "white", "black"}, name1 : {"A", "B"},
            adjud : BOOLEAN, n : 0..MaxWin, w : {0, 1},
            bb : BaseTimes, bw : BaseTimes, inc : Increments,
            turn : Sides, over : BOOLEAN] :
        /\ ~c.adjud => (c.n = 0 /\ c.w = 0)
        /\ \/ c.gc = NoValue /\ c.name1 = "B"
           \/ ~c.adjud /\ c.inc = 0 /\ ~c.over}

\* A run of main with two engines, one starting position and no --reverse:
\* the state when the only Match has been submitted.  main passed
\* player_data[m] as player1 (index 0, Black) and player_data[n] as player2
\* (index 1, White), with m, n = 0, 1, swapped by --gauntlet-color white.
InitMatch ==
    \E c \in MatchConfigs :
        LET idx == [s \in Sides |-> IF (c.gc = "white") = (s = BLACK) THEN 1 ELSE 0]
            pd == [i \in 0..1 |-> NewEntry(IF i = 0 THEN "A" ELSE c.name1)]
        IN  /\ mpc = "collect"
            /\ args = [reverse_start_side |-> FALSE, gauntlet_color |-> c.gc,
                       parallel |-> 1, positions |-> 1]
            /\ total_games = IF c.gc = NoValue THEN 1 ELSE 1 \div 2
            /\ player_data = pd
            /\ self = [eng_names |-> [s \in Sides |-> pd[idx[s]].name],
                       idx |-> idx,
                       round_num |-> 10, total_games |-> total_games, game_id |-> 1,
                       adjudication |-> c.adjud, win_score_cp |-> c.w,
                       win_score_count |-> c.n]
            /\ game_id = 1
            /\ round_num = 1
            /\ sub_round = 1
            /\ loop = [gidx |-> 1, i |-> 0, m |-> idx[BLACK], n |-> idx[WHITE],
                       games_per_pair_per_round |-> 1]
            /\ analysis = <<>>
            /\ num_res = 0
            /\ outpgn = <<>>
            /\ pc = "start"
            /\ clock = [s \in Sides |-> Timer(IF s = WHITE THEN c.bw ELSE c.bb, c.inc)]
            /\ time_forfeit = [s \in Sides |-> FALSE]
            /\ eng_score = [s \in Sides |-> <<>>]
            /\ score_adjudication = NoAdjudication
            /\ board = [turn |-> c.turn, over |-> c.over,
                        flags |-> IF c.over THEN {"stalemate"} ELSE {}, stack |-> <<>>]
            /\ node = <<>>
            /\ eng = [s \in Sides |-> "none"]
            /\ game = NoGame
            /\ upd = NoCall

SpecMatch == InitMatch /\ [][NextMatch]_vars

\* The contest with the unit explorations of its parts.
InitContest == InitTimer \/ InitAdjudicator \/ InitHeaders \/ InitMatch
NextContest == TimerUpdate \/ Adjudicate \/ WriteHeaders \/ NextMatch
SpecContest == InitContest /\ [][NextContest]_vars

(***************************************************************************)
(* main: the submission loops, the process pool, the completion loop       *)
(***************************************************************************)
\* Largest roster and largest number of starting positions.
MaxK == 6
MaxPositions == 10
\* The pool and the completion loop are explored for the runs that submit at
\* most this many matches; larger runs are explored through their submission.
MaxJobs == 2

EngineNames == <<"A", "B", "C", "D", "E", "F", "G", "H">>

\* The rosters explored for k engines: k different names, or one of the
\* names given to two engines.
Rosters(k) ==
    {[i \in 0..(k - 1) |-> NewEntry(EngineNames[i + 1])]}
    \cup {[i \in 0..(k - 1) |-> NewEntry(EngineNames[(IF i = p[2] THEN p[1] ELSE i) + 1])] :
            p \in {q \in (0..(k - 1)) \X (0..(k - 1)) : q[1] < q[2]}}

\* total_games, as main computes it before the matches are submitted.
TotalGames(k, positions, reverse, gc) ==
    LET t == IF reverse THEN (k - 1) * positions * 2 ELSE (k - 1) * positions
    IN  IF gc = NoValue THEN t ELSE t \div 2

\* The number of iterations the submission loops make.
Submissions(k, positions, reverse, gc) ==
    (k - 1) * positions * (IF reverse /\ gc = NoValue THEN 2 ELSE 1)

K == Cardinality(DOMAIN player_data)
Roster == 0..(K - 1)
Explored == Submissions(K, args.positions, args.reverse_start_side, args.gauntlet_color) <= MaxJobs

InitMain ==
    /\ IdleMatch
    /\ mpc = "for_game"
    /\ \E k \in 2..MaxK, positions \in 0..MaxPositions, reverse \in BOOLEAN,
          gc \in {NoValue, "white", "black"}, parallel \in {1, 2} :
       \E pd \in Rosters(k) :
          /\ Submissions(k, positions, reverse, gc) > MaxJobs
                => (parallel = 1 /\ pd = [i \in 0..(k - 1) |-> NewEntry(EngineNames[i + 1])])
          /\ args = [reverse_start_side |-> reverse, gauntlet_color |-> gc,
                     parallel |-> parallel, positions |-> positions]
          /\ player_data = pd
          /\ total_games = TotalGames(k, positions, reverse, gc)
    /\ game_id = 0
    /\ round_num = 0
    /\ sub_round = 0
    /\ loop = NoLoop
    /\ analysis = <<>>
    /\ num_res = 0
    /\ outpgn = <<>>

\* for game in games: round_num += 1; sub_round = 0.0, or the loop is left
\* and the completion loop begins.
NextGame ==
    /\ mpc = "for_game"
    /\ IF loop.gidx < args.positions
       THEN /\ loop' = [loop EXCEPT !.gidx = @ + 1, !.i = 0]
            /\ round_num' = round_num + 1
            /\ sub_round' = 0
            /\ mpc' = "for_pair"
       ELSE /\ mpc' = "collect"
            /\ UNCHANGED <<loop, round_num, sub_round>>
    /\ UNCHANGED <<matchVars, args, player_data, total_games, game_id, analysis,
                   num_res, outpgn>>

\* for i in range(len(player_data)): m, n = 0, i+1, swapped for a white
\* gauntlet; the loop is left at the last index, or at once when there is
\* no entry.
NextPair ==
    /\ mpc = "for_pair"
    /\ IF loop.i >= K - 1
       THEN /\ mpc' = "for_game"
            /\ loop' = [loop EXCEPT !.m = IF args.gauntlet_color = "white" THEN loop.i + 1 ELSE 0,
                                    !.n = IF args.gauntlet_color = "white" THEN 0 ELSE loop.i + 1]
       ELSE /\ mpc' = "while"
            /\ loop' = [loop EXCEPT !.m = IF args.gauntlet_color = "white" THEN loop.i + 1 ELSE 0,
                                    !.n = IF args.gauntlet_color = "white" THEN 0 ELSE loop.i + 1,
                                    !.games_per_pair_per_round = 0]
    /\ UNCHANGED <<matchVars, args, player_data, total_games, game_id, round_num,
                   sub_round, analysis, num_res, outpgn>>

\* A variant that hands player1 the white side.
NewMatch_player1_white(m, n, rnd, total, id, gidx) ==
    [game_id |-> id, round_num |-> rnd, total_games |-> total, position |-> gidx,
     idx |-> [s \in Sides |-> IF s = WHITE THEN m ELSE n],
     eng_names |-> [s \in Sides |-> player_data[IF s = WHITE THEN m ELSE n].name],
     state |-> "pending", result |-> NoGame, result_id |-> 0,
     order |-> 0, applied |-> FALSE]

\* Match(game, player_data[m], player_data[n], round, total_games, game_id, ...)
\* as the pool receives it: player1 is index 0 (Black), player2 index 1 (White).
\* The round is held in tenths: round_num + sub_round, sub_round being a sum
\* of floats 0.1, has the integer part of the exact sum for every round and
\* count explored, and two such sums of up to ten terms are equal exactly
\* when their tenths are.  With the Match the job keeps its future:
\* state, result and result_id (what start_match returned), and, for the
\* record, its place in the order as_completed yielded the futures (0: not
\* yet) and whether update_score was reached for it.
NewMatch(m, n, rnd, total, id, gidx) ==
    [game_id |-> id, round_num |-> rnd, total_games |-> total, position |-> gidx,
     idx |-> [s \in Sides |-> IF s = BLACK THEN m ELSE n],
     eng_names |-> [s \in Sides |-> player_data[IF s = BLACK THEN m ELSE n].name],
     state |-> "pending", result |-> NoGame, result_id |-> 0,
     order |-> 0, applied |-> FALSE]

\* A variant that numbers the rematch like the game it reverses.
SubmittedId_per_pair(id, gpp) == id - gpp

\* game_id += 1, and the id the Match is given.
SubmittedId(id, gpp) == id

\* A variant in which a gauntlet colour does not suppress the rematch.
LeavesWhile_ignores_colour(reverse, gc, gpp) == ~reverse \/ gpp >= 2

\* The two breaks at the end of the while True body; gpp is
\* games_per_pair_per_round after its increment.
LeavesWhile(reverse, gc, gpp) ==
    \/ ~reverse
    \/ gc = "white" \/ gc = "black"
    \/ gpp >= 2

\* One iteration of the while True loop: a Match is built and submitted.
SubmitMatch ==
    /\ mpc = "while"
    /\ game_id' = game_id + 1
    /\ sub_round' = sub_round + 1
    /\ analysis' = Append(analysis,
          NewMatch(loop.m, loop.n,
                   IF args.reverse_start_side THEN round_num * 10 + sub_round'
                                              ELSE round_num * 10,
                   total_games,
                   SubmittedId(game_id', loop.games_per_pair_per_round),
                   loop.gidx))
    /\ IF LeavesWhile(args.reverse_start_side, args.gauntlet_color,
                      loop.games_per_pair_per_round + 1)
       THEN /\ loop' = [loop EXCEPT !.games_per_pair_per_round = @ + 1, !.i = @ + 1]
            /\ mpc' = "for_pair"
       ELSE /\ loop' = [loop EXCEPT !.games_per_pair_per_round = @ + 1,
                                    !.m = loop.n, !.n = loop.m]
            /\ mpc' = "while"
    /\ UNCHANGED <<matchVars, args, player_data, total_games, round_num, num_res,
                   outpgn>>

\* Ways a contest ends (start_match): a flag falls on the side to move, or
\* the position is over by checkmate of the side to move or by stalemate.
ContestEnds ==
    {[tfs |-> [s \in Sides |-> s = f], sa |-> NoAdjudication,
      board |-> [turn |-> f, over |-> FALSE, flags |-> {}, stack |-> <<>>]] : f \in Sides}
    \cup {[tfs |-> [s \in Sides |-> FALSE], sa |-> NoAdjudication,
           board |-> [turn |-> t, over |-> TRUE, flags |-> {"checkmate"}, stack |-> <<>>]] :
              t \in Sides}
    \cup {[tfs |-> [s \in Sides |-> FALSE], sa |-> NoAdjudication,
           board |-> [turn |-> WHITE, over |-> TRUE, flags |-> {"stalemate"}, stack |-> <<>>]]}

PoolSize == IF args.parallel < 1 THEN 1 ELSE args.parallel
Running == {j \in DOMAIN analysis : analysis[j].state = "running"}

\* A free worker process takes the oldest pending job.
WorkerStart ==
    /\ Explored
    /\ Cardinality(Running) < PoolSize
    /\ \E j \in DOMAIN analysis :
          /\ analysis[j].state = "pending"
          /\ \A h \in 1..(j - 1) : analysis[h].state # "pending"
          /\ analysis' = [analysis EXCEPT ![j].state = "running"]
    /\ UNCHANGED <<matchVars, mpc, args, player_data, total_games, game_id,
                   round_num, sub_round, loop, num_res, outpgn>>

\* start_match returns [game, self.game_id, self.round_num, elapse].
WorkerReturns ==
    /\ \E j \in Running, e \in ContestEnds :
          analysis' = [analysis EXCEPT
              ![j].state = "done",
              ![j].result = update_headers(e.tfs, e.sa, e.board,
                                           analysis[j].eng_names[1],
                                           analysis[j].eng_names[0],
                                           analysis[j].round_num),
              ![j].result_id = analysis[j].game_id]
    /\ UNCHANGED <<matchVars, mpc, args, player_data, total_games, game_id,
                   round_num, sub_round, loop, num_res, outpgn>>

\* start_match raises: the future holds the exception.
WorkerRaises ==
    /\ \E j \in Running :
          analysis' = [analysis EXCEPT ![j].state = "raised"]
    /\ UNCHANGED <<matchVars, mpc, args, player_data, total_games, game_id,
                   round_num, sub_round, loop, num_res, outpgn>>

Yielded == {j \in DOMAIN analysis : analysis[j].order > 0}

\* A variant in which an exception of the loop body leaves the loop.
LoopAfter_propagates(failed) == IF failed THEN "end" ELSE "collect"

\* The try/except is inside the loop body: whatever the body did, the loop
\* takes the next completed future.
LoopAfter(failed) == "collect"

\* One iteration of for future in concurrent.futures.as_completed(analysis):
\* any completed future not yet yielded.
Collect ==
    /\ mpc = "collect"
    /\ \E j \in DOMAIN analysis, written \in BOOLEAN :
          /\ analysis[j].order = 0
          /\ analysis[j].state \in {"done", "raised"}
          /\ analysis[j].state = "raised" => written
          /\ analysis' = [analysis EXCEPT
                ![j].order = Cardinality(Yielded) + 1,
                ![j].applied = (analysis[j].state = "done" /\ written)]
          /\ IF analysis[j].state = "raised"
             THEN HandleRaised
             ELSE HandleResult(analysis[j].result, written)
          /\ mpc' = LoopAfter(analysis[j].state = "raised" \/ ~written)
    /\ UNCHANGED <<matchVars, args, total_games, game_id, round_num,
                   sub_round, loop>>

\* Every future has been yielded: the pool is shut down and main ends.
Finish ==
    /\ mpc = "collect"
    /\ Explored
    /\ \A j \in DOMAIN analysis : analysis[j].order > 0
    /\ mpc' = "end"
    /\ UNCHANGED <<matchVars, args, player_data, total_games, game_id, round_num,
                   sub_round, loop, analysis, num_res, outpgn>>

Next ==
    \/ NextGame
    \/ NextPair
    \/ SubmitMatch
    \/ WorkerStart
    \/ WorkerReturns
    \/ WorkerRaises
    \/ Collect
    \/ Finish

Spec == InitMain /\ [][Next]_vars

(***************************************************************************)
(* A contest against a search that always answers on a position that is    *)
(* never over                                                              *)
(***************************************************************************)
\* Base time of both clocks, in ms; the increment is 0.
StubBase == 100

\* The times the search reports: none or 0 ms (both charged as 1 ms), 1 ms,
\* a little more than 1 ms, half the base time, one ms less than the base
\* time, the base time.
StubElapses ==
    {WholeMs(0), WholeMs(1), [ms |-> 1, frac |-> TRUE], WholeMs(StubBase \div 2),
     WholeMs(StubBase - 1), WholeMs(StubBase)}

InitStub ==
    /\ IdleMain
    /\ pc = "start"
    /\ self = [NoSelf EXCEPT !.eng_names = [s \in Sides |-> IF s = WHITE THEN "B" ELSE "A"],
                             !.idx = [s \in Sides |-> s],
                             !.round_num = 10, !.total_games = 1, !.game_id = 1]
    /\ clock = [s \in Sides |-> Timer(StubBase, 0)]
    /\ time_forfeit = [s \in Sides |-> FALSE]
    /\ eng_score = [s \in Sides |-> <<>>]
    /\ score_adjudication = NoAdjudication
    /\ \E t \in Sides : board = [StartBoard EXCEPT !.turn = t]
    /\ node = <<>>
    /\ eng = [s \in Sides |-> "none"]
    /\ game = NoGame
    /\ upd = NoCall

\* One iteration of the while loop with the stub: a move, no score, and the
\* position goes on.
StubPly ==
    /\ pc = "loop"
    /\ \E elapse \in StubElapses :
          PlyStep("e2e4", Missing, PyMax1(elapse), [over |-> FALSE, flags |-> {}])
    /\ UNCHANGED <<self, eng, game, mainVars>>

SpecStub == InitStub /\ [][MatchOpen \/ StubPly \/ MatchFinalize]_vars

(***************************************************************************)
(* A contest without increment against searches that always answer         *)
(***************************************************************************)
\* Largest base time of a clock, in ms.
MaxBase == 2

\* Any base times from 0 to MaxBase, no increment, adjudication off or on
\* with a window of one score of 1 or more, either side to move on a
\* position that may be over.
InitClocked ==
    /\ IdleMain
    /\ pc = "start"
    /\ \E adjud \in BOOLEAN, n \in 0..1, w \in {0, 1} :
          /\ n = (IF adjud THEN 1 ELSE 0)
          /\ w = n
          /\ self = [NoSelf EXCEPT
                        !.eng_names = [s \in Sides |-> IF s = WHITE THEN "B" ELSE "A"],
                        !.idx = [s \in Sides |-> s],
                        !.round_num = 10, !.total_games = 1, !.game_id = 1,
                        !.adjudication = adjud, !.win_score_cp = w,
                        !.win_score_count = n]
    /\ \E b \in [Sides -> 0..MaxBase] : clock = [s \in Sides |-> Timer(b[s], 0)]
    /\ time_forfeit = [s \in Sides |-> FALSE]
    /\ eng_score = [s \in Sides |-> <<>>]
    /\ score_adjudication = NoAdjudication
    /\ \E t \in Sides, over \in BOOLEAN :
          board = [turn |-> t, over |-> over,
                   flags |-> IF over THEN {"stalemate"} ELSE {}, stack |-> <<>>]
    /\ node = <<>>
    /\ eng = [s \in Sides |-> "none"]
    /\ game = NoGame
    /\ upd = NoCall

\* One iteration of the while loop: the search answers, with any score and
\* time or none, and the rules interface says anything of the new position.
ClockedPly ==
    /\ pc = "loop"
    /\ \E move \in Moves, score_cp \in Optional(ScoreVals),
          time_ms \in Optional(Elapses), measured \in 0..MaxElapse,
          st \in PlayStatuses :
          /\ time_ms # Missing => measured = 0
          /\ PlyStep(move, score_cp,
                     PyMax1(IF time_ms = Missing THEN WholeMs(measured) ELSE time_ms[1]),
                     st)
    /\ UNCHANGED <<self, eng, game, mainVars>>

NextClocked == MatchOpen \/ ClockedPly \/ MatchFinalize

\* The worker process runs start_match on, whatever the other processes do.
SpecClocked == InitClocked /\ [][NextClocked]_vars /\ WF_vars(NextClocked)

(***************************************************************************)
(* update_score over every sequence of outcomes between two engines        *)
(***************************************************************************)
\* Longest sequence of outcomes applied.
MaxGames == 4

\* Two engines A and B, alone or with a third engine C.
InitScore ==
    /\ IdleMatch
    /\ mpc = "score"
    /\ args = [reverse_start_side |-> FALSE, gauntlet_color |-> NoValue,
               parallel |-> 1, positions |-> 0]
    /\ \E k \in 2..3 : player_data = [i \in 0..(k - 1) |-> NewEntry(EngineNames[i + 1])]
    /\ total_games = 0
    /\ game_id = 0
    /\ round_num = 0
    /\ sub_round = 0
    /\ loop = NoLoop
    /\ analysis = <<>>
    /\ num_res = 0
    /\ outpgn = <<>>

\* The outcome of one more contest between A and B, either of them White,
\* is archived and applied.
ScoreGame ==
    /\ mpc = "score"
    /\ Len(outpgn) < MaxGames
    /\ \E w \in 0..1, e \in ContestEnds :
          HandleResult(update_headers(e.tfs, e.sa, e.board,
                                      player_data[w].name, player_data[1 - w].name,
                                      10),
                       TRUE)
    /\ UNCHANGED <<matchVars, mpc, args, total_games, game_id, round_num,
                   sub_round, loop, analysis>>

SpecScore == InitScore /\ [][ScoreGame]_vars

\* The runs of main above, together with the run whose only contest is
\* played ply by ply.
InitRun == InitMain \/ InitMatch
NextRun == (pc = "idle" /\ Next) \/ NextMatch
SpecRun == InitRun /\ [][NextRun]_vars

(***************************************************************************)
(* main from its first line: the configuration is read and checked, then   *)
(* the run goes on as above                                                *)
(***************************************************************************)
\* The names of the engine configuration file.
Catalog == {"A", "B"}

\* What is given for one engine: config-name (or name), or none, and tc as
\* base+inc, as a base alone (no '+'), or none.
EngineOptions ==
    [name : Optional({"A", "B", "X"}), tc : {Missing, <<1>>, <<1, 0>>}]

\* Most starting positions read from the opening file.
MaxOpenings == 2

\* What get_game_list finds of the opening file.
OpeningFiles == {"ok", "no extension", "unreadable", "malformed"}

Raised == [raised |-> TRUE, names |-> <<>>, players |-> <<>>]

\* get_match_data with --engine given (engine_option_value): one entry of
\* names and of players per --engine; a tc without '+' raises.  players[i]
\* is base and inc, or none for both.  Index 0 of the code is 1 here.
MatchDataOptions(engine) ==
    IF \E i \in DOMAIN engine : Len(engine[i].tc) = 1 THEN Raised
    ELSE [raised |-> FALSE,
          names |-> [i \in DOMAIN engine |-> engine[i].name],
          players |-> [i \in DOMAIN engine |-> engine[i].tc]]

\* get_match_data without --engine: match.ini is read, sections engine1 and
\* engine2 in this order.  A name is appended to names when the section has
\* one; base_time_ms and inc_time_ms are assigned when the section has a tc
\* and keep their value otherwise, from one section to the next; players
\* gets an entry for a section with at least one item.
MatchDataIni(engine) ==
    LET named(e) == IF e.name = Missing THEN <<>> ELSE <<e.name>>
        tc1 == engine[1].tc
        tc2 == IF engine[2].tc = Missing THEN tc1 ELSE engine[2].tc
        present == {i \in 1..2 : engine[i].name # Missing \/ engine[i].tc # Missing}
    IN  IF \E i \in 1..2 : Len(engine[i].tc) = 1 THEN Raised
        ELSE [raised |-> FALSE,
              names |-> named(engine[1]) \o named(engine[2]),
              players |-> [i \in present |-> IF i = 1 THEN tc1 ELSE tc2]]

get_match_data(source, engine) ==
    IF source = "options" THEN MatchDataOptions(engine) ELSE MatchDataIni(engine)

\* error_check raises when a name is None, and when base or inc of
\* players[i] is None (or players has no key i) for an index i of names.
error_check(players, names) ==
    \/ \E i \in DOMAIN names : names[i] = Missing
    \/ \E i \in DOMAIN names : i \notin DOMAIN players \/ players[i] = Missing

\* get_engine_file_and_option raises when get_engine_data finds no entry of
\* that name.
get_engine_file_and_option(names) ==
    \E i \in DOMAIN names : names[i] # Missing /\ names[i][1] \notin Catalog

\* The number of entries zip(names, eng_files, eng_opts, clock) gives.
ZipLen(players, names) ==
    IF Len(names) <= Cardinality(DOMAIN players) THEN Len(names)
    ELSE Cardinality(DOMAIN players)

InitStartup ==
    /\ IdleMatch
    /\ mpc = "startup"
    /\ \E source \in {"options", "ini"}, engine \in [1..2 -> EngineOptions],
          opening \in OpeningFiles, positions \in 0..MaxOpenings,
          reverse \in BOOLEAN :
          args = [reverse_start_side |-> reverse, gauntlet_color |-> NoValue,
                  parallel |-> 1, positions |-> positions,
                  source |-> source, engine |-> engine, opening |-> opening]
    /\ player_data = <<>>
    /\ total_games = 0
    /\ game_id = 0
    /\ round_num = 0
    /\ sub_round = 0
    /\ loop = NoLoop
    /\ analysis = <<>>
    /\ num_res = 0
    /\ outpgn = <<>>

\* main down to the with statement: get_match_data, get_clock, error_check,
\* get_engine_file_and_option, player_data, get_game_list, total_games.  An
\* exception of any of them leaves main.
Startup ==
    /\ mpc = "startup"
    /\ LET d == get_match_data(args.source, args.engine)
           k == ZipLen(d.players, d.names)
       IN  IF \/ d.raised
              \/ error_check(d.players, d.names)
              \/ get_engine_file_and_option(d.names)
              \/ args.opening # "ok"
           THEN /\ mpc' = "aborted"
                /\ UNCHANGED <<player_data, total_games>>
           ELSE /\ mpc' = "for_game"
                /\ player_data' = [i \in 0..(k - 1) |-> NewEntry(d.names[i + 1][1])]
                /\ total_games' = TotalGames(k, args.positions,
                                             args.reverse_start_side,
                                             args.gauntlet_color)
    /\ UNCHANGED <<matchVars, args, game_id, round_num, sub_round, loop,
                   analysis, num_res, outpgn>>

SpecStartup == InitStartup /\ [][Startup \/ Next]_vars

(***************************************************************************)
(* The Timers of the roster and the Timers of the contests in the pool     *)
(***************************************************************************)
\* Most clock updates explored in one contest.
MaxUpdates == 2

\* A variant in which the pool runs its jobs on threads of main's process.
Executor_threads == "thread"

\* with ProcessPoolExecutor(max_workers=parallel) as executor: submit sends
\* the bound method g.start_match pickled, so the worker process that runs
\* it gets its own Match and its own two Timers, copies of those of
\* player_data.  Run on threads, the Match would refer to the Timers of
\* player_data themselves.
Executor == "process"

\* self.clock = [player1['clock'], player2['clock']]: the Timer that side s
\* of job j's Match refers to.
MatchClock(j, s) ==
    IF Executor = "process" THEN analysis[j].clock[s]
                            ELSE player_data[analysis[j].idx[s]].clock

\* Job j's record becomes job and the Timers its Match refers to become c.
SetClocks(j, job, c) ==
    IF Executor = "process"
    THEN /\ analysis' = [analysis EXCEPT ![j] = [job EXCEPT !.clock = c]]
         /\ UNCHANGED player_data
    ELSE /\ analysis' = [analysis EXCEPT ![j] = job]
         /\ player_data' =
               [i \in DOMAIN player_data |->
                   IF \E s \in Sides : job.idx[s] = i
                   THEN [player_data[i] EXCEPT
                            !.clock = c[CHOOSE s \in Sides : job.idx[s] = i]]
                   ELSE player_data[i]]

\* main up to the submission loop, with two engines A and B: get_clock makes
\* one Timer per engine from its tc, and player_data keeps it under 'clock'.
InitClocks ==
    /\ IdleMatch
    /\ mpc = "clocks"
    /\ \E b \in [0..1 -> BaseTimes], inc \in Increments, par \in 1..2 :
          /\ args = [reverse_start_side |-> FALSE, gauntlet_color |-> NoValue,
                     parallel |-> par, positions |-> MaxJobs]
          /\ player_data = [i \in 0..1 |->
                NewEntry(IF i = 0 THEN "A" ELSE "B") @@ [clock |-> Timer(b[i], inc)]]
    /\ total_games = MaxJobs
    /\ game_id = 0
    /\ round_num = 0
    /\ sub_round = 0
    /\ loop = NoLoop
    /\ analysis = <<>>
    /\ num_res = 0
    /\ outpgn = <<>>

\* One starting position: the Match of engines 0 and 1 is built and
\* submitted.  With the Match go its Timers as they are then, the side to
\* move, its time_forfeit list and the number of clock updates made.
ClockSubmit ==
    /\ mpc = "clocks"
    /\ Len(analysis) < MaxJobs
    /\ game_id' = game_id + 1
    /\ round_num' = round_num + 1
    /\ LET g == NewMatch(0, 1, round_num' * 10, total_games, game_id', round_num')
       IN  analysis' = Append(analysis,
              g @@ [clock |-> [s \in Sides |-> player_data[g.idx[s]].clock],
                    turn |-> WHITE,
                    time_forfeit |-> [s \in Sides |-> FALSE],
                    updates |-> 0])
    /\ UNCHANGED <<matchVars, mpc, args, player_data, total_games, sub_round,
                   loop, num_res, outpgn>>

\* A free worker takes the oldest pending job; start_match sets rem_time of
\* both clocks to btms.
ClockStart ==
    /\ Cardinality(Running) < PoolSize
    /\ \E j \in DOMAIN analysis :
          /\ analysis[j].state = "pending"
          /\ \A h \in 1..(j - 1) : analysis[h].state # "pending"
          /\ SetClocks(j, [analysis[j] EXCEPT !.state = "running"],
                       [s \in Sides |->
                           [MatchClock(j, s) EXCEPT !.rem_time = MatchClock(j, s).btms]])
    /\ UNCHANGED <<matchVars, mpc, args, total_games, game_id, round_num,
                   sub_round, loop, num_res, outpgn>>

\* One iteration of the while loop of a running contest: the clock of the
\* side to move is updated, time_forfeit takes its tf, and the turn passes
\* unless the flag fell.
ClockUpdate ==
    /\ \E j \in Running, e \in Elapses :
          LET job == analysis[j]
              t == update_time(MatchClock(j, job.turn), PyMax1(e))
          IN  /\ \A s \in Sides : ~job.time_forfeit[s]
              /\ job.updates < MaxUpdates
              /\ SetClocks(j,
                    [job EXCEPT !.updates = @ + 1,
                                !.time_forfeit[job.turn] = t.tf,
                                !.turn = IF t.tf THEN @ ELSE Other(@)],
                    [s \in Sides |-> IF s = job.turn THEN t ELSE MatchClock(j, s)])
    /\ UNCHANGED <<matchVars, mpc, args, total_games, game_id, round_num,
                   sub_round, loop, num_res, outpgn>>

\* The loop is left on a fallen flag, or with the side to move checkmated;
\* start_match returns.
ClockReturn ==
    /\ \E j \in Running :
          LET job == analysis[j]
              tf == \E s \in Sides : job.time_forfeit[s]
          IN  /\ tf \/ job.updates >= 1
              /\ analysis' = [analysis EXCEPT
                    ![j].state = "done",
                    ![j].result =
                        update_headers(job.time_forfeit, NoAdjudication,
                                       [turn |-> job.turn, over |-> ~tf,
                                        flags |-> IF tf THEN {} ELSE {"checkmate"},
                                        stack |-> <<>>],
                                       job.eng_names[1], job.eng_names[0],
                                       job.round_num),
                    ![j].result_id = job.game_id]
    /\ UNCHANGED <<matchVars, mpc, args, player_data, total_games, game_id,
                   round_num, sub_round, loop, num_res, outpgn>>

SpecClocks == InitClocks /\ [][ClockSubmit \/ ClockStart \/ ClockUpdate \/ ClockReturn]_vars

(***************************************************************************)
(* Properties: the clock                                                   *)
(***************************************************************************)
\* e > k for an elapsed time e (whole ms, perhaps a fraction) and an integer k.
ElapseAbove(e, k) == IF e.frac THEN e.ms >= k ELSE e.ms > k

\* C6: for every clock state and every elapsed time e, update(e) yields
\* remainingMs' = remainingMs - e + incMs and forfeited' = forfeited or
\* (remainingMs - e < 1), the test being made on the time left before the
\* increment is credited.  The remaining time of the program is a whole
\* number, so the sum can only be met by a whole e.
C6_UpdateAsStated ==
    upd.called =>
        LET after == clock[upd.side]
            e == upd.elapse
        IN  /\ ~e.frac
            /\ after.rem_time = upd.rem_time - e.ms + after.itms
            /\ after.tf = (upd.tf \/ ElapseAbove(e, upd.rem_time - 1))

\* A call with an elapsed time between two whole milliseconds that uses up
\* the clock and is not counted as a forfeit.
C6_FractionSpared ==
    /\ upd.called
    /\ upd.elapse.frac
    /\ ~upd.tf
    /\ upd.rem_time - upd.elapse.ms = 1
    /\ ~clock[upd.side].tf

(***************************************************************************)
(* Properties: the adjudicator                                             *)
(***************************************************************************)
WindowN == self.win_score_count
ThresholdT == self.win_score_cp
Evaluated == pc = "adjudicated"
InContest == pc \in {"start", "loop", "finalize", "done", "failed"}

LongEnough ==
    Len(eng_score[WHITE]) >= WindowN /\ Len(eng_score[BLACK]) >= WindowN
\* The last n scores of a history of at least n scores.
LastN(s, n) == SubSeq(s, Len(s) - n + 1, Len(s))
AllGE(s, t) == \A i \in DOMAIN s : s[i] >= t
AllLE(s, t) == \A i \in DOMAIN s : s[i] <= t

WhiteCondition ==
    /\ AllGE(LastN(eng_score[WHITE], WindowN), ThresholdT)
    /\ AllLE(LastN(eng_score[BLACK], WindowN), -ThresholdT)
BlackCondition ==
    /\ AllGE(LastN(eng_score[BLACK], WindowN), ThresholdT)
    /\ AllLE(LastN(eng_score[WHITE], WindowN), -ThresholdT)

\* C7: on histories of at least N scores each, the adjudicator returns
\* white-wins iff every one of White's last N scores is >= T and every one of
\* Black's last N is <= -T; black-wins iff the mirror condition holds and the
\* white one does not; never both; and the scores older than the last N do
\* not change the decision.
C7_Decision ==
    Evaluated /\ LongEnough =>
        /\ score_adjudication[WHITE] = WhiteCondition
        /\ score_adjudication[BLACK] = (BlackCondition /\ ~WhiteCondition)
        /\ ~(score_adjudication[WHITE] /\ score_adjudication[BLACK])
        /\ score_adjudication =
              Adjudged([s \in Sides |-> LastN(eng_score[s], WindowN)])

\* Both conditions hold on the last N scores, an older score of White does
\* not qualify, and White is adjudged the winner.
C7_BothConditionsOlderScore ==
    /\ Evaluated
    /\ WindowN >= 1
    /\ Len(eng_score[WHITE]) > WindowN /\ Len(eng_score[BLACK]) >= WindowN
    /\ WhiteCondition /\ BlackCondition
    /\ ~AllGE(eng_score[WHITE], ThresholdT)
    /\ score_adjudication = WhiteAdjudged

AdjudicationReasons ==
    {"adjudication: good score for white", "adjudication: good score for black"}
Short ==
    Len(eng_score[WHITE]) < WindowN \/ Len(eng_score[BLACK]) < WindowN

\* C8: the adjudicator returns (false, false) whenever a history has fewer
\* than N scores, so no contest is ended by score adjudication before each
\* side has made at least N searched moves.
C8_ShortHistory ==
    (Evaluated \/ InContest) /\ Short =>
        /\ score_adjudication = NoAdjudication
        /\ game.Termination \notin AdjudicationReasons

\* In a contest with N = 1, White has moved with a qualifying score, Black
\* has not searched yet, and the contest goes on.
C8_OneSideReady ==
    /\ pc = "loop"
    /\ self.adjudication
    /\ WindowN = 1
    /\ Len(board.stack) = 1
    /\ Len(eng_score[WHITE]) = 1 /\ eng_score[WHITE][1] >= ThresholdT
    /\ Len(eng_score[BLACK]) = 0
    /\ score_adjudication = NoAdjudication

Negated(s) == [i \in DOMAIN s |-> -s[i]]
Swapped(scores) == [s \in Sides |-> scores[Other(s)]]
SwappedNegated(scores) == [s \in Sides |-> Negated(scores[Other(s)])]
SwappedDecision(d) == [s \in Sides |-> d[Other(s)]]

\* C9 as stated: evaluating the adjudicator on the histories with the two
\* sides swapped and every score negated yields the swapped decision.
C9_SwapNegateSwapsDecision ==
    Evaluated =>
        Adjudged(SwappedNegated(eng_score)) = SwappedDecision(score_adjudication)

\* C9 as amended: swapping the sides and negating the scores leaves the
\* decision as it is; swapping the sides alone yields the swapped decision,
\* except when both conditions hold at once (N = 0 or T <= 0), where White
\* is adjudged the winner both times.
C9_Mirror ==
    Evaluated =>
        /\ Adjudged(SwappedNegated(eng_score)) = score_adjudication
        /\ IF LongEnough /\ WhiteCondition /\ BlackCondition
           THEN /\ WindowN = 0 \/ ThresholdT <= 0
                /\ score_adjudication = WhiteAdjudged
                /\ Adjudged(Swapped(eng_score)) = WhiteAdjudged
           ELSE Adjudged(Swapped(eng_score)) = SwappedDecision(score_adjudication)

\* White is adjudged the winner on a positive threshold; with the sides
\* swapped Black is, with the sides swapped and the scores negated White is.
C9_DecisiveMirror ==
    /\ Evaluated
    /\ WindowN >= 1 /\ ThresholdT >= 1
    /\ score_adjudication = WhiteAdjudged
    /\ Adjudged(Swapped(eng_score)) = BlackAdjudged
    /\ Adjudged(SwappedNegated(eng_score)) = WhiteAdjudged

(***************************************************************************)
(* Properties: the termination written to the record                       *)
(***************************************************************************)
Finished == pc \in {"headers_done", "done"}
AnyForfeit == time_forfeit[WHITE] \/ time_forfeit[BLACK]
AnyAdjudication == score_adjudication[WHITE] \/ score_adjudication[BLACK]

NaturalOrder == <<"checkmate", "stalemate", "insufficient", "fifty", "threefold">>
ReasonOf ==
    [c \in Classes |->
        CASE c = "checkmate" -> "checkmate"
          [] c = "stalemate" -> "stalemate"
          [] c = "insufficient" -> "insufficient mating material"
          [] c = "fifty" -> "fifty-move draw rule"
          [] c = "threefold" -> "threefold repetition"]
\* The reason of the first class, in the order above, the position is in.
FirstNatural(flags) ==
    LET hits == {i \in DOMAIN NaturalOrder : NaturalOrder[i] \in flags}
    IN  IF hits = {} THEN "unknown"
        ELSE ReasonOf[NaturalOrder[CHOOSE i \in hits : \A h \in hits : i <= h]]

\* C4: a set time-forfeit flag makes the record report 'time forfeit', even
\* when an adjudication signal is set too; else a set adjudication signal
\* makes it report the adjudication reason and the adjudicated result, even
\* when the position is over; only otherwise the natural classification is
\* used, in the order checkmate, stalemate, insufficient material,
\* fifty-move, threefold repetition, unknown.
C4_Precedence ==
    Finished =>
        /\ AnyForfeit => game.Termination = "time forfeit"
        /\ ~AnyForfeit /\ AnyAdjudication =>
              /\ game.Termination =
                    (IF score_adjudication[WHITE]
                     THEN "adjudication: good score for white"
                     ELSE "adjudication: good score for black")
              /\ game.Result = (IF score_adjudication[WHITE] THEN "1-0" ELSE "0-1")
        /\ ~AnyForfeit /\ ~AnyAdjudication =>
              /\ game.Termination = FirstNatural(board.flags)
              /\ game.Result = BoardResult(board)

\* Headers written with a time-forfeit flag and an adjudication signal set.
C4_ForfeitAndAdjudication ==
    /\ Finished
    /\ AnyForfeit /\ AnyAdjudication
    /\ game.Termination = "time forfeit"

(***************************************************************************)
(* Properties: a time forfeit, from the clock to the scoreboard            *)
(***************************************************************************)
\* The only contest of the run was taken up and update_score was reached.
OutcomeApplied == mpc = "end" /\ pc = "done" /\ Len(outpgn) = 1

\* C5: when a contest ends by time forfeit, the competitor whose own clock was
\* exhausted on its own move loses (0-1 if it is White, 1-0 if it is Black),
\* and once the outcome is applied it is that competitor's roster entry whose
\* loss and time-forfeit counters are incremented and the opponent's entry
\* whose win counter is incremented.
C5_ForfeitLoses ==
    pc = "done" /\ game.Termination = "time forfeit" =>
        \E s \in Sides :
            /\ clock[s].tf /\ upd.side = s /\ ~clock[Other(s)].tf
            /\ game.Result = (IF s = WHITE THEN "0-1" ELSE "1-0")
            /\ OutcomeApplied =>
                  LET loser == player_data[self.idx[s]]
                      winner == player_data[self.idx[Other(s)]]
                  IN  /\ loser = [NewEntry(loser.name) EXCEPT !.loss = 1, !.tf = 1]
                      /\ winner = [NewEntry(winner.name) EXCEPT !.win = 1]

\* A time forfeit has been applied to a roster of two entries of one name.
C5_ForfeitSameName ==
    /\ OutcomeApplied
    /\ game.Termination = "time forfeit"
    /\ player_data[0].name = player_data[1].name

(***************************************************************************)
(* Properties: the scoreboard                                              *)
(***************************************************************************)
AppliedJobs == {j \in DOMAIN analysis : analysis[j].applied}
\* The roster entries a job's outcome names: the winner, the loser, the two
\* participants of a draw.
WinnerOf(j) ==
    IF analysis[j].result.Result = "1-0" THEN {analysis[j].idx[WHITE]}
    ELSE IF analysis[j].result.Result = "0-1" THEN {analysis[j].idx[BLACK]}
    ELSE {}
LoserOf(j) ==
    IF analysis[j].result.Result = "1-0" THEN {analysis[j].idx[BLACK]}
    ELSE IF analysis[j].result.Result = "0-1" THEN {analysis[j].idx[WHITE]}
    ELSE {}
DrawersOf(j) ==
    IF analysis[j].result.Result = "1/2-1/2"
    THEN {analysis[j].idx[WHITE], analysis[j].idx[BLACK]}
    ELSE {}

\* C1: every applied outcome adds 1 to the win counter of exactly one entry
\* (the winner's) and 1 to the loss counter of exactly one other entry (the
\* loser's); a draw adds 1 to the draw counters of exactly the two
\* participants; the time-forfeit counter grows by 1 for the losing entry
\* only, and only on a 'time forfeit'; every other counter is unchanged.
\* Hence each counter is the number of applied outcomes that name its entry.
C1_CountersByEntry ==
    \A i \in DOMAIN player_data :
        /\ player_data[i].win = Cardinality({j \in AppliedJobs : i \in WinnerOf(j)})
        /\ player_data[i].loss = Cardinality({j \in AppliedJobs : i \in LoserOf(j)})
        /\ player_data[i].draw = Cardinality({j \in AppliedJobs : i \in DrawersOf(j)})
        /\ player_data[i].tf =
              Cardinality({j \in AppliedJobs :
                             /\ i \in LoserOf(j)
                             /\ analysis[j].result.Termination = "time forfeit"})

(***************************************************************************)
(* Properties: the scheduler                                               *)
(***************************************************************************)
Expanded == mpc \in {"collect", "end"}

\* C2: for every K >= 2, P, reverseColors and gauntlet colour, the total
\* stamped on each fixture equals the number of fixtures submitted, and both
\* equal (K-1) * P * (2 if reverseColors else 1), halved when a gauntlet
\* colour is given.
C2_TotalIsSubmitted ==
    Expanded =>
        LET full == (K - 1) * args.positions
                        * (IF args.reverse_start_side THEN 2 ELSE 1)
        IN  /\ \A j \in DOMAIN analysis : analysis[j].total_games = Len(analysis)
            /\ IF args.gauntlet_color = NoValue
               THEN Len(analysis) = full
               ELSE 2 * Len(analysis) = full

\* C3: fixture ids are 1, 2, 3, ... in submission order (strictly increasing,
\* pairwise distinct) for every K, P, reverseColors and gauntlet colour, and
\* the id reported with a completed outcome is the id the fixture was given
\* at submission, whatever the order of completion.
C3_Ids ==
    /\ \A j \in DOMAIN analysis : analysis[j].game_id = j
    /\ \A j, h \in DOMAIN analysis :
          j < h => analysis[j].game_id < analysis[h].game_id
    /\ \A j \in DOMAIN analysis :
          analysis[j].state = "done" => analysis[j].result_id = analysis[j].game_id

\* With reverseColors the second fixture completed and was taken up first,
\* and both outcomes carry the ids of their submission.
C3_CompletedOutOfOrder ==
    /\ args.reverse_start_side
    /\ Len(analysis) = 2
    /\ analysis[2].order = 1 /\ analysis[1].order = 2
    /\ analysis[1].result_id = 1 /\ analysis[2].result_id = 2

(***************************************************************************)
(* Properties: the completion loop                                         *)
(***************************************************************************)
\* A step of the completion loop in which the processing of job j fails.
FailsOn(j) ==
    /\ analysis[j].order = 0
    /\ analysis'[j].order > 0
    /\ ~analysis'[j].applied

\* C10: a failure while processing one completion (the contest failed, or
\* its outcome could not be processed) is caught: the scoreboard is left as
\* it was, and the coordinator goes on to take up every remaining
\* completion, so the run ends only when every fixture has been taken up and
\* every outcome whose processing did not fail is in the archive.
C10_FailureIsContained ==
    /\ [][\A j \in DOMAIN analysis : FailsOn(j) => player_data' = player_data]_vars
    /\ [](mpc = "end" =>
            /\ \A j \in DOMAIN analysis : analysis[j].order > 0
            /\ Len(outpgn) = Cardinality(AppliedJobs)
            /\ num_res = Cardinality({j \in DOMAIN analysis : analysis[j].state = "done"}))

\* The run has ended; a contest that raised was taken up first, and the
\* outcome taken up after it was applied.
C10_AppliedAfterFailure ==
    /\ mpc = "end"
    /\ \E a, b \in DOMAIN analysis :
          /\ analysis[a].state = "raised"
          /\ analysis[a].order = 1 /\ analysis[b].order = 2
          /\ analysis[b].applied
          /\ player_data # [i \in DOMAIN player_data |-> NewEntry(player_data[i].name)]

(***************************************************************************)
(* Properties: the single writer                                           *)
(***************************************************************************)
\* The completion loop takes up one completed contest and applies its whole
\* outcome: the game is appended to the archive and update_score is applied.
AppliesOne(g) ==
    /\ mpc = "collect"
    /\ outpgn' = Append(outpgn, g)
    /\ player_data' = update_score(g, player_data)
AppliesOutcome ==
    \/ /\ pc = "done"
       /\ mpc' = "end"
       /\ AppliesOne(game)
    \/ \E j \in DOMAIN analysis :
          /\ analysis[j].state = "done"
          /\ analysis[j].order = 0 /\ analysis'[j].order > 0
          /\ AppliesOne(analysis[j].result)

\* C11: the scoreboard and the archive are changed only by the completion
\* loop, one whole outcome at a time: no step of a running contest changes a
\* counter, and a contest that is running, has failed or never completes
\* contributes no change to any entry.
C11_SingleWriter ==
    [][(player_data' # player_data \/ outpgn' # outpgn) => AppliesOutcome]_vars

\* One outcome has been applied while another contest of the pool is still
\* running.
C11_AppliedWhileRunning ==
    /\ mpc = "collect"
    /\ Len(outpgn) = 1
    /\ \E a, b \in DOMAIN analysis :
          analysis[a].state = "running" /\ analysis[b].applied

(***************************************************************************)
(* Properties: every outcome once                                          *)
(***************************************************************************)
DoneJobs == {j \in DOMAIN analysis : analysis[j].state = "done"}

\* C12 as stated: every fixture that completes successfully has its outcome
\* applied, and when the loop has ended the number of applied outcomes is the
\* number of successful completions.
C12_EveryCompletionApplied ==
    mpc = "end" =>
        /\ \A j \in DoneJobs : analysis[j].applied
        /\ Len(outpgn) = Cardinality(DoneJobs)

\* C12 as amended: no fixture is executed, taken up or applied twice and a
\* failed fixture is not run again; when the loop has ended every fixture
\* has been taken up once, the applied outcomes are outcomes of successful
\* completions, each archived once, and they are as many as the successful
\* completions unless the processing of one failed (the archive could not
\* be written), which leaves that outcome out.
C12_AtMostOnce ==
    /\ [][\A j \in DOMAIN analysis :
            /\ analysis[j].state \in {"done", "raised"} =>
                  analysis'[j].state = analysis[j].state
            /\ analysis[j].state = "running" =>
                  analysis'[j].state # "pending"
            /\ analysis[j].order > 0 =>
                  /\ analysis'[j].order = analysis[j].order
                  /\ analysis'[j].applied = analysis[j].applied]_vars
    /\ [](mpc = "end" =>
            /\ \A j \in DOMAIN analysis : analysis[j].order > 0
            /\ AppliedJobs \subseteq DoneJobs
            /\ Len(outpgn) = Cardinality(AppliedJobs)
            /\ num_res = Cardinality(DoneJobs)
            /\ \A j, h \in DOMAIN analysis :
                  j # h => analysis[j].order # analysis[h].order)

\* The loop has ended with two successful completions, both applied.
C12_BothApplied ==
    /\ mpc = "end"
    /\ Len(analysis) = 2
    /\ DoneJobs = {1, 2}
    /\ AppliedJobs = {1, 2}
    /\ Len(outpgn) = 2

(***************************************************************************)
(* Properties: the round number of a fixture                               *)
(***************************************************************************)
\* C13: within one expansion no two fixtures carry the same roundNumber, for
\* any K, P, reverseColors and gauntlet colour: fixtures that share a round
\* are told apart by their fractional suffix.
C13_RoundsDistinct ==
    \A j, h \in DOMAIN analysis :
        j # h => analysis[j].round_num # analysis[h].round_num

\* Without reverseColors, two pairings of one starting position have been
\* submitted.
C13_TwoPairingsOneRound ==
    /\ ~args.reverse_start_side
    /\ \E j, h \in DOMAIN analysis :
          /\ j # h
          /\ analysis[j].position = analysis[h].position
          /\ analysis[j].idx # analysis[h].idx

\* C14: for every fixture the integer part of its roundNumber is the 1-based
\* index of the starting position it was generated from, however many
\* fixtures the round has (the suffix counting them in tenths).
C14_RoundGrouping ==
    \A j \in DOMAIN analysis :
        analysis[j].round_num \div 10 = analysis[j].position

\* With reverseColors a tenth fixture has been submitted for one starting
\* position.
C14_TenthOfRound ==
    /\ args.reverse_start_side
    /\ \E j \in DOMAIN analysis :
          Cardinality({h \in 1..j : analysis[h].position = analysis[j].position}) = 10

(***************************************************************************)
(* Properties: colours and rematches                                       *)
(***************************************************************************)
PairOf(j) == {analysis[j].idx[WHITE], analysis[j].idx[BLACK]}
\* Job j is the first fixture of its starting position and pairing.
FirstOfPairing(j) ==
    \A h \in 1..(j - 1) :
        ~(analysis[h].position = analysis[j].position /\ PairOf(h) = PairOf(j))

\* C15: the first fixture of every position and pairing has competitor 0 as
\* Black and the opponent as White when no gauntlet colour is given; with
\* gauntlet white competitor 0 is White in every fixture, with gauntlet black
\* it is Black in every fixture; every fixture has roster index 0 on one
\* side and an index 1..K-1 on the other, and the record names its sides so.
C15_Colours ==
    \A j \in DOMAIN analysis :
        /\ \E i \in 1..(K - 1) : PairOf(j) = {0, i}
        /\ args.gauntlet_color = NoValue /\ FirstOfPairing(j) =>
              analysis[j].idx[BLACK] = 0
        /\ args.gauntlet_color = "white" => analysis[j].idx[WHITE] = 0
        /\ args.gauntlet_color = "black" => analysis[j].idx[BLACK] = 0
        /\ \A s \in Sides :
              analysis[j].eng_names[s] = player_data[analysis[j].idx[s]].name
        /\ analysis[j].state = "done" =>
              /\ analysis[j].result.White = player_data[analysis[j].idx[WHITE]].name
              /\ analysis[j].result.Black = player_data[analysis[j].idx[BLACK]].name

\* A white gauntlet of three engines: the second pairing of the position has
\* competitor 0 as White and competitor 2 as Black.
C15_WhiteGauntlet ==
    /\ args.gauntlet_color = "white"
    /\ K = 3
    /\ Len(analysis) = 2
    /\ analysis[2].idx[WHITE] = 0 /\ analysis[2].idx[BLACK] = 2
    /\ analysis[2].state = "done" /\ analysis[2].result.White = "A"

FixturesOf(g, i) ==
    {j \in DOMAIN analysis : analysis[j].position = g /\ PairOf(j) = {0, i}}

\* C16: for every starting position and pairing the scheduler emits exactly
\* two fixtures when reverseColors is set and no gauntlet colour is given,
\* the second with the same position and competitors, the colours swapped
\* and the next id, and exactly one fixture otherwise; so for K = 2 without
\* reverseColors and gauntlet colour there are as many fixtures as positions,
\* and twice as many with reverseColors.
C16_Rematch ==
    Expanded =>
        /\ \A g \in 1..args.positions, i \in 1..(K - 1) :
              IF args.reverse_start_side /\ args.gauntlet_color = NoValue
              THEN \E j \in DOMAIN analysis :
                      /\ FixturesOf(g, i) = {j, j + 1}
                      /\ analysis[j + 1].game_id = analysis[j].game_id + 1
                      /\ analysis[j + 1].idx[WHITE] = analysis[j].idx[BLACK]
                      /\ analysis[j + 1].idx[BLACK] = analysis[j].idx[WHITE]
              ELSE Cardinality(FixturesOf(g, i)) = 1
        /\ K = 2 /\ args.gauntlet_color = NoValue =>
              Len(analysis) = (IF args.reverse_start_side THEN 2 ELSE 1) * args.positions

\* Two engines, three positions and reverseColors: six fixtures, the second
\* of each position with the colours of the first swapped.
C16_Doubled ==
    /\ Expanded
    /\ K = 2 /\ args.positions = 3
    /\ args.reverse_start_side /\ args.gauntlet_color = NoValue
    /\ Len(analysis) = 6
    /\ analysis[6].idx[WHITE] = analysis[5].idx[BLACK]

(***************************************************************************)
(* Properties: the standings of two engines                                *)
(***************************************************************************)
Decisive(g) == g.Result \in {"1-0", "0-1"}
WinnerName(g) == IF g.Result = "1-0" THEN g.White ELSE g.Black

\* C17: for two competitors A and B with distinct names, after any sequence
\* of N decisive fixtures between them has been applied, A.wins + B.wins = N,
\* A.wins = B.losses, B.wins = A.losses, and both have no draws.
C17_Standings ==
    mpc = "score" /\ (\A k \in DOMAIN outpgn : Decisive(outpgn[k])) =>
        /\ player_data[0].win + player_data[1].win = Len(outpgn)
        /\ player_data[0].win = player_data[1].loss
        /\ player_data[1].win = player_data[0].loss
        /\ player_data[0].draw = 0 /\ player_data[1].draw = 0

\* Four decisive fixtures won by A, B, A, B in turn.
C17_Alternating ==
    /\ mpc = "score"
    /\ Len(outpgn) = 4
    /\ \A k \in 1..4 :
          /\ Decisive(outpgn[k])
          /\ WinnerName(outpgn[k]) = (IF k % 2 = 1 THEN "A" ELSE "B")
    /\ player_data[0].win = 2 /\ player_data[1].win = 2

(***************************************************************************)
(* Properties: a contest that only the clock can end                       *)
(***************************************************************************)
\* C18 as stated: with both clocks at the base time and no increment, the
\* contest is time-forfeited on its first clock update, whatever the elapsed
\* time, and its record reports 'time forfeit'.
C18_ForfeitOnFirstUpdate ==
    /\ upd.called => AnyForfeit /\ Len(node) = 1
    /\ pc = "done" => game.Termination = "time forfeit"

\* C18 as amended: the first clock update forfeits exactly when the elapsed
\* time it is charged (whole ms, at least 1) is the base time or more;
\* otherwise the contest goes on, every update takes at least 1 ms off a
\* clock, a clock falls at the latest on its update number baseMs, and the
\* record of the ended contest reports 'time forfeit' with the side whose
\* clock fell as the loser.
C18_ForfeitByBaseTime ==
    /\ upd.called /\ Len(node) = 1 =>
          (AnyForfeit <=> upd.elapse.ms >= StubBase)
    /\ \A s \in Sides :
          /\ clock[s].rem_time <= StubBase - Len(eng_score[s])
          /\ Len(eng_score[s]) <= StubBase
          /\ Len(eng_score[s]) = StubBase => time_forfeit[s]
    /\ Len(node) <= 2 * StubBase - 1
    /\ pc \in {"finalize", "done"} => AnyForfeit
    /\ pc = "done" =>
          /\ game.Termination = "time forfeit"
          /\ game.Result = (IF time_forfeit[WHITE] THEN "0-1" ELSE "1-0")

\* The first search took 1 ms and the contest went on; it ended by time
\* forfeit on a later move.
C18_ForfeitLater ==
    /\ pc = "done"
    /\ game.Termination = "time forfeit"
    /\ Len(node) = 2 * StubBase - 1

(***************************************************************************)
(* Properties: the clock within a contest                                  *)
(***************************************************************************)
\* C19: within a contest forfeiture is permanent (once a clock's flag is
\* true it is true in every later state), and after the reset to the base
\* time at the start of the contest the remaining time changes only through
\* update.
C19_Permanent ==
    [][\A s \in Sides :
          /\ clock[s].tf => clock'[s].tf
          /\ clock'[s] # clock[s] =>
                \/ /\ pc = "start"
                   /\ clock'[s] = [clock[s] EXCEPT !.rem_time = clock[s].btms]
                \/ /\ upd'.called /\ upd'.side = s
                   /\ upd'.rem_time = clock[s].rem_time
                   /\ clock'[s] = update_time(clock[s], upd'.elapse)]_vars

\* A forfeited clock has been updated again, by a call that leaves at least
\* 1 ms and would not forfeit by itself, and is still forfeited.
C19_UpdatedAfterForfeit ==
    /\ upd.called
    /\ upd.tf
    /\ upd.rem_time - upd.elapse.ms >= 1
    /\ clock[upd.side].tf

\* C20: clock state is private to a fixture execution: every fixture starts
\* with both of its clocks at the base time and not forfeited, and a step of
\* one fixture (its start, a clock update, a forfeit) never changes the
\* remaining time or the forfeited flag another fixture sees, be it pending,
\* running at the same time or finished, nor the roster's own Timers.
JobStepped(j) ==
    \/ analysis'[j].state # analysis[j].state
    \/ analysis'[j].updates # analysis[j].updates

C20_Private ==
    /\ [](\A j \in DOMAIN analysis :
             analysis[j].state = "running" /\ analysis[j].updates = 0 =>
                \A s \in Sides :
                   /\ MatchClock(j, s).rem_time = player_data[analysis[j].idx[s]].clock.btms
                   /\ ~MatchClock(j, s).tf)
    /\ [][/\ \A j \in DOMAIN analysis :
                ~JobStepped(j) => \A s \in Sides : MatchClock(j, s)' = MatchClock(j, s)
          /\ \A i \in DOMAIN player_data :
                player_data'[i].clock = player_data[i].clock]_vars

\* A fixture whose flag has fallen, and another fixture of the same two
\* competitors started after it on untouched clocks.
C20_StartedAfterForfeit ==
    \E j, h \in DOMAIN analysis :
        /\ j < h
        /\ analysis[j].eng_names = analysis[h].eng_names
        /\ \E s \in Sides : analysis[j].time_forfeit[s] /\ MatchClock(j, s).tf
        /\ analysis[h].state = "running"
        /\ analysis[h].updates = 0
        /\ \A s \in Sides : ~MatchClock(h, s).tf

(***************************************************************************)
(* Properties: the end of a contest                                        *)
(***************************************************************************)
\* C21: whichever path ends the game loop (natural end, time forfeit, score
\* adjudication), both engines have quit before start_match returns: no
\* contest is done with an engine still running, and none quits before the
\* loop is left.
C21_EnginesQuit ==
    /\ pc = "done" => \A s \in Sides : eng[s] = "quit"
    /\ pc \in {"loop", "finalize"} => \A s \in Sides : eng[s] = "running"

\* A contest is done by time forfeit, after at least one move was played.
C21_QuitAfterForfeit ==
    /\ pc = "done"
    /\ AnyForfeit
    /\ Len(board.stack) >= 1
    /\ game.Termination = "time forfeit"
    /\ \A s \in Sides : eng[s] = "quit"

(***************************************************************************)
(* Properties: the archive and the scoreboard                              *)
(***************************************************************************)
RECURSIVE ScoreOf(_, _)
\* The scoreboard after the records of an archive are applied in its order.
ScoreOf(archive, pd) ==
    IF archive = <<>> THEN pd
    ELSE update_score(archive[Len(archive)],
                      ScoreOf(SubSeq(archive, 1, Len(archive) - 1), pd))

\* C22: the record is appended to the archive before the scoreboard is
\* updated: in every state the scoreboard counts the outcomes of the
\* archive's records and no other, and the archive only grows at its end.
C22_ArchiveFirst ==
    /\ [](player_data =
             ScoreOf(outpgn, [i \in DOMAIN player_data |->
                                 NewEntry(player_data[i].name)]))
    /\ [][/\ Len(outpgn') >= Len(outpgn)
          /\ SubSeq(outpgn', 1, Len(outpgn)) = outpgn]_vars

\* Two completions were taken up; the archive could not be written for the
\* first, and the second is archived and counted.
C22_SecondArchived ==
    /\ Len(outpgn) = 1
    /\ \E a, b \in DOMAIN analysis :
          /\ analysis[a].state = "done" /\ analysis[a].order = 1
          /\ ~analysis[a].applied
          /\ analysis[b].order = 2 /\ analysis[b].applied
          /\ outpgn[1] = analysis[b].result

(***************************************************************************)
(* Properties: configuration failures                                      *)
(***************************************************************************)
\* The configuration names a failure: an engine without a name, an engine
\* without base time and increment, a name the catalog does not have, an
\* opening file that cannot be read.
ConfigurationFailure ==
    \/ \E i \in 1..2 : args.engine[i].name = Missing
    \/ \E i \in 1..2 : Len(args.engine[i].tc) < 2
    \/ \E i \in 1..2 : args.engine[i].name # Missing
                        /\ args.engine[i].name[1] \notin Catalog
    \/ args.opening # "ok"

\* C23: a configuration failure aborts the run before any fixture is
\* submitted: no fixture reaches the pool, no contest starts, nothing is
\* archived and no scoreboard entry is changed.
C23_FailureAborts ==
    ConfigurationFailure =>
        /\ analysis = <<>>
        /\ outpgn = <<>>
        /\ \A i \in DOMAIN player_data :
              player_data[i] = NewEntry(player_data[i].name)

\* match.ini names both engines and gives a tc to engine1 only: the contest
\* of the two has been played and counted.
C23_PlayedWithoutTc ==
    /\ args.source = "ini"
    /\ args.engine[2].tc = Missing
    /\ Len(analysis) >= 1
    /\ analysis[1].applied
    /\ Len(outpgn) = 1

(***************************************************************************)
(* Properties: one ply of a contest                                        *)
(***************************************************************************)
\* The loop body has run for the side to move.
Searched == pc = "loop" /\ Len(node') = Len(node) + 1

\* C24: when the clock update of the side to move reports forfeiture the
\* contest stops before the move is applied: the loop is left with the
\* position and the adjudication signal as they were, nothing changes them
\* afterwards, and a time-forfeited contest ends with the forfeiting side to
\* move.
C24_StopsBeforeMove ==
    /\ [][/\ Searched /\ clock'[board.turn].tf =>
                /\ board' = board
                /\ score_adjudication' = score_adjudication
                /\ pc' = "finalize"
          /\ pc \in {"finalize", "done"} =>
                /\ board' = board
                /\ score_adjudication' = score_adjudication]_vars
    /\ [](pc \in {"finalize", "done"} /\ AnyForfeit => time_forfeit[board.turn])

\* A contest is done by time forfeit on a ply whose scores, had the
\* adjudicator been asked, would have adjudicated it.
C24_ForfeitOnWinningScore ==
    /\ pc = "done"
    /\ AnyForfeit
    /\ self.adjudication
    /\ \E s \in Sides : Adjudged(eng_score)[s]
    /\ ~AnyAdjudication
    /\ game.Termination = "time forfeit"

\* The side that moved at ply i of the contest (1 is the first ply).
MoverOf(i) ==
    LET pushes == Len(board.stack)
    IN  IF (pushes - (i - 1)) % 2 = 0 THEN board.turn ELSE Other(board.turn)
SearchesOf(s) == Cardinality({i \in 1..Len(node) : MoverOf(i) = s})

\* C25: every search answer appends one entry to the moving side's score
\* history, the reported score or 0 when there is none; a missing score or
\* time does not end or fail the contest; each history is as long as the
\* searches its side has made, and the adjudicator reads the 0.
C25_OneEntryPerSearch ==
    /\ [][Searched =>
             /\ eng_score' = [eng_score EXCEPT ![board.turn] =
                   Append(@, IF upd'.score_cp = Missing THEN 0
                             ELSE upd'.score_cp[1])]
             /\ pc' \in {"loop", "finalize"}
             /\ pc' = "finalize" =>
                   \/ time_forfeit'[board.turn]
                   \/ score_adjudication'[WHITE] \/ score_adjudication'[BLACK]
                   \/ board'.over
             /\ (self.adjudication /\ ~time_forfeit'[board.turn]) =>
                   score_adjudication' = Adjudged(eng_score')]_vars
    /\ [](pc \in {"loop", "finalize", "done"} =>
             \A s \in Sides : Len(eng_score[s]) = SearchesOf(s))

\* The last answer had no score, and the contest is adjudicated on windows
\* of which one holds the 0 saved for it.
C25_MissingScoreInWindow ==
    /\ pc \in {"finalize", "done"}
    /\ upd.called
    /\ upd.score_cp = Missing
    /\ self.adjudication
    /\ self.win_score_count = 1
    /\ self.win_score_cp = 0
    /\ AnyAdjudication
    /\ eng_score[upd.side][Len(eng_score[upd.side])] = 0

\* C26: at the end of every contest the move list of the record is the
\* sequence of moves applied to the position.
C26_RecordIsPlayed ==
    pc = "done" => node = board.stack

\* A time-forfeited contest whose record holds one move more than the
\* position.
C26_ForfeitMoveRecorded ==
    /\ pc = "done"
    /\ AnyForfeit
    /\ Len(node) = Len(board.stack) + 1

(***************************************************************************)
(* Properties: termination by the clock                                    *)
(***************************************************************************)
BaseOf(s) == clock[s].btms
AtLeast1(b) == IF b < 1 THEN 1 ELSE b

\* C27 as stated: without increment every contest ends: a side with base
\* time B has forfeited by its B-th move and the contest is done after at
\* most baseWhite + baseBlack plies.
C27_DoneWithinBases ==
    /\ [](/\ \A s \in Sides :
               /\ Len(eng_score[s]) <= BaseOf(s)
               /\ Len(eng_score[s]) >= 1 /\ Len(eng_score[s]) = BaseOf(s)
                     => time_forfeit[s]
          /\ Len(node) <= BaseOf(WHITE) + BaseOf(BLACK))
    /\ <>(pc = "done")

\* C27 as amended: the same, a base time below 1 counting as 1: a side with
\* base time B has forfeited by its B-th move, or by its first when B < 1,
\* and the contest is done after at most max(1, baseWhite) +
\* max(1, baseBlack) plies.  Each update takes at least 1 ms off a clock.
C27_DoneWithinClocks ==
    /\ [](/\ \A s \in Sides :
               /\ Len(eng_score[s]) <= AtLeast1(BaseOf(s))
               /\ Len(eng_score[s]) = AtLeast1(BaseOf(s)) => time_forfeit[s]
               /\ pc # "start" => clock[s].rem_time <= BaseOf(s) - Len(eng_score[s])
          /\ Len(node) <= AtLeast1(BaseOf(WHITE)) + AtLeast1(BaseOf(BLACK)))
    /\ <>(pc = "done")

\* A contest on clocks of 2 ms or more that is done on the last ply the
\* clocks allow.
C27_LastPossiblePly ==
    /\ pc = "done"
    /\ \A s \in Sides : BaseOf(s) >= 2
    /\ AnyForfeit
    /\ Len(node) = BaseOf(WHITE) + BaseOf(BLACK) - 1

(***************************************************************************)
(* Properties: the order of arrival                                        *)
(***************************************************************************)
RECURSIVE AppliedUpTo(_)
\* The outcomes applied so far, in the order of submission.
AppliedUpTo(n) ==
    IF n = 0 THEN <<>>
    ELSE IF analysis[n].applied THEN Append(AppliedUpTo(n - 1), analysis[n].result)
    ELSE AppliedUpTo(n - 1)

\* C28: the scoreboard does not depend on the order in which contests
\* complete: whatever order the completion loop took the outcomes in, the
\* counters are those the same outcomes give in the order of submission,
\* and applying any two archived outcomes commutes.
C28_OrderFree ==
    /\ player_data =
          ScoreOf(IF outpgn = <<>> THEN <<>> ELSE AppliedUpTo(Len(analysis)),
                  [i \in DOMAIN player_data |-> NewEntry(player_data[i].name)])
    /\ \A j, h \in DOMAIN outpgn :
          j < h =>
             update_score(outpgn[j], update_score(outpgn[h], player_data))
             = update_score(outpgn[h], update_score(outpgn[j], player_data))

\* The loop has ended; the second fixture, a win, was applied before the
\* first, which its winner lost on time.
C28_AppliedInReverse ==
    /\ mpc = "end"
    /\ Len(analysis) = 2
    /\ analysis[2].order = 1 /\ analysis[1].order = 2
    /\ analysis[1].applied /\ analysis[2].applied
    /\ analysis[1].result.Termination = "time forfeit"
    /\ Decisive(analysis[1].result) /\ Decisive(analysis[2].result)
    /\ WinnerName(analysis[2].result) # WinnerName(analysis[1].result)

(***************************************************************************)
(* Properties: one cause of termination                                    *)
(***************************************************************************)
\* C29: in every state of a contest at most one cause of termination is
\* set: the two time_forfeit flags are never both true, a time_forfeit flag
\* is never true together with an adjudication signal, and a contest whose
\* adjudication is off never has a signal nor ends with an adjudication
\* reason.
C29_OneCause ==
    /\ ~(time_forfeit[WHITE] /\ time_forfeit[BLACK])
    /\ ~(AnyForfeit /\ AnyAdjudication)
    /\ ~(score_adjudication[WHITE] /\ score_adjudication[BLACK])
    /\ ~self.adjudication =>
          /\ ~AnyAdjudication
          /\ pc = "done" => game.Termination \notin AdjudicationReasons

\* A contest without adjudication is done by Black's time forfeit after
\* scores that an adjudicator with a window of 1 would have acted on.
C29_ForfeitWithoutAdjudication ==
    /\ pc = "done"
    /\ ~self.adjudication
    /\ time_forfeit[BLACK] /\ ~time_forfeit[WHITE]
    /\ Len(eng_score[WHITE]) >= 1 /\ Len(eng_score[BLACK]) >= 1
    /\ eng_score[WHITE][1] = 1
    /\ eng_score[BLACK][1] = -1
    /\ game.Termination = "time forfeit"

=============================================================================
